---- MODULE Spec2Model ----
(***************************************************************************)
(* Model of package postgres: the functional options (WithHost ..          *)
(* WithMaxConnLifeTimeJitter, WithZapLogger ..), the options record, and   *)
(* New, which applies the options, resolves defaults, builds the           *)
(* connection descriptor, parses it with pgxpool.ParseConfig, overlays the *)
(* pool settings, installs the AfterConnect ping hook and calls            *)
(* pgxpool.NewWithConfig.                                                  *)
(*                                                                         *)
(* Encodings.  A Go pointer is <<>> (nil) or <<v>>.  An error is <<>>      *)
(* (nil) or <<message>>.  A host string is a sequence of one-character     *)
(* strings, so that parsing and formatting an IP address are computed.     *)
(* A Go int that is later narrowed to int32 is the pair <<hi, lo>> of its  *)
(* upper and lower 32-bit halves, both read as signed 32-bit numbers.      *)
(***************************************************************************)
EXTENDS Integers, Sequences, FiniteSets, TLC

\* Bounds of the model.
MaxOpts == 2
MaxConnAttempts == 2

Nil == <<>>
Ptr(v) == <<v>>
Deref(p) == p[1]

-----------------------------------------------------------------------------
\* Package constants (part_000, lines 14-21).

postgres == "postgres"
default_port == 5432
default_host == <<"1", "2", "7", ".", "0", ".", "0", ".", "1">>
default_user == "postgres"
default_database == "postgres"
disable_ssl_mode == "disable"

-----------------------------------------------------------------------------
\* Text helpers: decimal digits, as strconv and fmt compute them.

Digits == <<"0", "1", "2", "3", "4", "5", "6", "7", "8", "9">>

IsDigit(c) == \E d \in 1..10 : Digits[d] = c

DigitVal(c) == (CHOOSE d \in 1..10 : Digits[d] = c) - 1

RECURSIVE Itoa(_)
Itoa(n) == IF n < 10 THEN <<Digits[n + 1]>>
           ELSE Itoa(n \div 10) \o <<Digits[(n % 10) + 1]>>

\* net.ParseIP restricted to the inputs without ':' (dotted-decimal IPv4 or
\* garbage): a left-to-right scan keeping the current octet value, its digit
\* count and the octets read so far.  The result is <<>> (no address) or
\* <<octets>>.
RECURSIVE parseIPv4Fields(_, _, _, _, _)
parseIPv4Fields(s, k, val, digLen, fields) ==
    IF k > Len(s)
    THEN IF Len(fields) < 3 THEN Nil ELSE Ptr(Append(fields, val))
    ELSE IF IsDigit(s[k])
         THEN IF digLen = 1 /\ val = 0 THEN Nil
              ELSE IF val * 10 + DigitVal(s[k]) > 255 THEN Nil
              ELSE parseIPv4Fields(s, k + 1, val * 10 + DigitVal(s[k]),
                                   digLen + 1, fields)
         ELSE IF s[k] = "."
              THEN IF k = 1 \/ k = Len(s) \/ s[k - 1] = "." THEN Nil
                   ELSE IF Len(fields) = 3 THEN Nil
                   ELSE parseIPv4Fields(s, k + 1, 0, 0, Append(fields, val))
              ELSE Nil

ParseIP(s) == IF \E k \in 1..Len(s) : s[k] = "."
              THEN parseIPv4Fields(s, 1, 0, 0, <<>>)
              ELSE Nil

\* (*net.IP).UnmarshalText: [err, ip].
UnmarshalText(text) ==
    IF Len(text) = 0 THEN [err |-> Nil, ip |-> Nil]
    ELSE IF ParseIP(text) = Nil
         THEN [err |-> Ptr("invalid IP address"), ip |-> Nil]
         ELSE [err |-> Nil, ip |-> Deref(ParseIP(text))]

\* net.IP.String for a four-octet address, as "%s" prints it.
IPString(ip) ==
    Itoa(ip[1]) \o <<".">> \o Itoa(ip[2]) \o <<".">> \o Itoa(ip[3])
        \o <<".">> \o Itoa(ip[4])

\* A Go int (64 bits) as <<hi, lo>>; int32(x) keeps the low half.
IsZero(x) == x[1] = 0 /\ x[2] = 0
IsNegative(x) == x[1] < 0
Int32(x) == x[2]
\* The 64-bit value of an int32 (sign extension).
Int64Of(n) == <<IF n < 0 THEN -1 ELSE 0, n>>

-----------------------------------------------------------------------------
\* The options record (part_000 lines 26-39, with the fields the logger
\* options assign to: tracelogger in part_001, logger in logger.go).

OptionFields == {"host", "port", "database", "user", "pass", "sslmode",
                 "maxconns", "minconns", "maxconnlifetime", "maxconnidletime",
                 "healthcheckperiod", "maxconnlifetimejitter",
                 "tracelogger", "logger"}

ZeroOptions == [f \in OptionFields |-> Nil]

Ok(options) == [err |-> Nil, options |-> options]
Fail(msg, options) == [err |-> Ptr(msg), options |-> options]

-----------------------------------------------------------------------------
\* The option closures.  Each is applied to the options record and yields
\* [err, options]; on an error the record is returned as it was.

WithHost(host, options) ==
    LET h == IF host = <<>> THEN default_host ELSE host
        r == UnmarshalText(h)
    IN IF r.err # Nil THEN [err |-> r.err, options |-> options]
       ELSE Ok([options EXCEPT !.host = Ptr(r.ip)])

\* WithPort that keeps a port already present.
MutWithPort(port, options) ==
    IF port = 0
    THEN Ok([options EXCEPT !.port = IF @ = Nil THEN Ptr(default_port) ELSE @])
    ELSE IF port < 0 THEN Fail("port cannot be less than zero", options)
    ELSE Ok([options EXCEPT !.port = IF @ = Nil THEN Ptr(port) ELSE @])

WithPort(port, options) ==
    IF port = 0 THEN Ok([options EXCEPT !.port = Ptr(default_port)])
    ELSE IF port < 0 THEN Fail("port cannot be less than zero", options)
    ELSE Ok([options EXCEPT !.port = Ptr(port)])

WithDatabase(database, options) ==
    Ok([options EXCEPT !.database =
            Ptr(IF database = "" THEN default_database ELSE database)])

WithUser(user, options) ==
    Ok([options EXCEPT !.user = Ptr(IF user = "" THEN default_user ELSE user)])

WithPass(pass, options) == Ok([options EXCEPT !.pass = Ptr(pass)])

\* WithSSLMode that clears the field for the empty mode.
MutWithSSLMode(mode, options) ==
    Ok([options EXCEPT !.sslmode = IF mode = "" THEN Nil ELSE Ptr(mode)])

WithSSLMode(mode, options) ==
    Ok([options EXCEPT !.sslmode =
            Ptr(IF mode = "" THEN disable_ssl_mode ELSE mode)])

WithMaxConns(conns, options) ==
    IF IsNegative(conns)
    THEN Fail("max connections cannot be less than zero", options)
    ELSE Ok([options EXCEPT !.maxconns = Ptr(conns)])

WithMinConns(conns, options) ==
    IF IsNegative(conns)
    THEN Fail("min connections cannot be less than zero", options)
    ELSE Ok([options EXCEPT !.minconns = Ptr(conns)])

WithMaxConnLifeTime(lifetime, options) ==
    IF lifetime < 0
    THEN Fail("max connection life time cannot be less than zero", options)
    ELSE Ok([options EXCEPT !.maxconnlifetime = Ptr(lifetime)])

WithMaxConnIdleTime(idletime, options) ==
    IF idletime < 0
    THEN Fail("max connection idle time cannot be less than zero", options)
    ELSE Ok([options EXCEPT !.maxconnidletime = Ptr(idletime)])

WithHealthCheckPeriod(period, options) ==
    IF period <= 0
    THEN Fail("health check period cannot be less than or equal to zero",
              options)
    ELSE Ok([options EXCEPT !.healthcheckperiod = Ptr(period)])

WithMaxConnLifeTimeJitter(jitter, options) ==
    IF jitter < 0
    THEN Fail("max connection life time jitter cannot be less than zero",
              options)
    ELSE Ok([options EXCEPT !.maxconnlifetimejitter = Ptr(jitter)])

\* tracelog.LogLevelFromString as the logger options call it: [err, lvl].
LogLevelFromString(level) ==
    CASE level = "trace" -> [err |-> Nil, lvl |-> 6]
      [] level = "debug" -> [err |-> Nil, lvl |-> 5]
      [] level = "info"  -> [err |-> Nil, lvl |-> 4]
      [] level = "warn"  -> [err |-> Nil, lvl |-> 3]
      [] level = "error" -> [err |-> Nil, lvl |-> 2]
      [] level = "none"  -> [err |-> Nil, lvl |-> 1]
      [] OTHER -> [err |-> Ptr("invalid log level"), lvl |-> 0]

\* The three logger options with a level (part_001).  arg = <<log, level>>,
\* log a pointer (or interface value) that may be nil.
TraceLogOption(adapter, arg, options) ==
    LET log == arg[1]
        r == LogLevelFromString(arg[2])
    IN IF log # Nil
       THEN IF r.err # Nil THEN [err |-> r.err, options |-> options]
            ELSE Ok([options EXCEPT !.tracelogger =
                        Ptr([Logger |-> <<adapter, Deref(log)>>,
                             LogLevel |-> r.lvl])])
       ELSE Ok(options)

\* WithZapLogger that drops the error of the level parse.
MutWithZapLogger(arg, options) ==
    IF arg[1] # Nil
    THEN Ok([options EXCEPT !.tracelogger =
                Ptr([Logger |-> <<"zap_adapter", Deref(arg[1])>>,
                     LogLevel |-> LogLevelFromString(arg[2]).lvl])])
    ELSE Ok(options)

WithZapLogger(arg, options) == TraceLogOption("zap_adapter", arg, options)

WithZeroLogger(arg, options) == TraceLogOption("zero_adapter", arg, options)

WithLogrusLogger(arg, options) == TraceLogOption("logrus_adapter", arg, options)

\* The three logger options without a level (logger.go); they carry the same
\* Go names as the ones above and are told apart here by the suffix.
PlainLogOption(adapter, log, options) ==
    IF log # Nil
    THEN Ok([options EXCEPT !.logger = Ptr(<<adapter, Deref(log)>>)])
    ELSE Ok(options)

WithZapLoggerPlain(log, options) == PlainLogOption("zap_adapter", log, options)

WithZeroLoggerPlain(log, options) == PlainLogOption("zero_adapter", log, options)

WithLogrusLoggerPlain(log, options) ==
    PlainLogOption("logrus_adapter", log, options)

\* An Option value is <<constructor name, argument>>.
Kind(o) == o[1]
Arg(o) == o[2]

\* option(&opt): the call of one Option closure.
Apply(o, options) ==
    CASE Kind(o) = "WithHost" -> WithHost(Arg(o), options)
      [] Kind(o) = "WithPort" -> WithPort(Arg(o), options)
      [] Kind(o) = "WithDatabase" -> WithDatabase(Arg(o), options)
      [] Kind(o) = "WithUser" -> WithUser(Arg(o), options)
      [] Kind(o) = "WithPass" -> WithPass(Arg(o), options)
      [] Kind(o) = "WithSSLMode" -> WithSSLMode(Arg(o), options)
      [] Kind(o) = "WithMaxConns" -> WithMaxConns(Arg(o), options)
      [] Kind(o) = "WithMinConns" -> WithMinConns(Arg(o), options)
      [] Kind(o) = "WithMaxConnLifeTime" -> WithMaxConnLifeTime(Arg(o), options)
      [] Kind(o) = "WithMaxConnIdleTime" -> WithMaxConnIdleTime(Arg(o), options)
      [] Kind(o) = "WithHealthCheckPeriod" ->
             WithHealthCheckPeriod(Arg(o), options)
      [] Kind(o) = "WithMaxConnLifeTimeJitter" ->
             WithMaxConnLifeTimeJitter(Arg(o), options)
      [] Kind(o) = "WithZapLogger" -> WithZapLogger(Arg(o), options)
      [] Kind(o) = "WithZeroLogger" -> WithZeroLogger(Arg(o), options)
      [] Kind(o) = "WithLogrusLogger" -> WithLogrusLogger(Arg(o), options)
      [] Kind(o) = "WithZapLoggerPlain" -> WithZapLoggerPlain(Arg(o), options)
      [] Kind(o) = "WithZeroLoggerPlain" -> WithZeroLoggerPlain(Arg(o), options)
      [] Kind(o) = "WithLogrusLoggerPlain" ->
             WithLogrusLoggerPlain(Arg(o), options)

-----------------------------------------------------------------------------
\* New, lines 57-103: default resolution and the connection descriptor.

\* Lines 57-63: opt.host is set to the parsed default host when it is nil.
ResolveHost(options) ==
    IF options.host = Nil
    THEN [options EXCEPT !.host = Ptr(UnmarshalText(default_host).ip)]
    ELSE options

\* Lines 65-101: the url.URL value (options has a host by now).  RawQuery is
\* the list of <<key, value>> pairs of url.Values.
BuildURL(options) ==
    LET port == IF options.port = Nil THEN default_port
                ELSE Deref(options.port)
        database == IF options.database = Nil THEN default_database
                    ELSE Deref(options.database)
        user == IF options.user = Nil THEN default_user
                ELSE Deref(options.user)
        pass == IF options.pass = Nil THEN "" ELSE Deref(options.pass)
        val == IF options.sslmode # Nil
               THEN << <<"sslmode", Deref(options.sslmode)>> >>
               ELSE <<>>
    IN [Scheme |-> postgres,
        Host |-> IPString(Deref(options.host)) \o <<":">> \o Itoa(port),
        Path |-> database,
        User |-> <<user, pass>>,
        RawQuery |-> val]

\* strconv-style reading of a digit string.
RECURSIVE Atoi(_)
Atoi(s) == IF Len(s) = 0 THEN 0
           ELSE Atoi(SubSeq(s, 1, Len(s) - 1)) * 10 + DigitVal(s[Len(s)])

LastColon(s) == CHOOSE k \in 1..Len(s) :
                    s[k] = ":" /\ \A j \in (k + 1)..Len(s) : s[j] # ":"

SSLModes == {"disable", "allow", "prefer", "require", "verify-ca",
             "verify-full"}

\* pgxpool.ParseConfig(url.String()), line 103, for the descriptors New
\* builds: [err, cfg].  The host and the port are split at the last colon;
\* the port must lie in 1..65535 and sslmode, "prefer" when the query has
\* none, must be a known mode.  Pool settings that the descriptor does not
\* mention are left at the library's defaults, written <<>> here.
ParseConfig(u) ==
    LET k == LastColon(u.Host)
        portText == SubSeq(u.Host, k + 1, Len(u.Host))
        sslmode == IF u.RawQuery = <<>> THEN "prefer" ELSE u.RawQuery[1][2]
    IN IF Len(portText) > 5 \/ Atoi(portText) < 1 \/ Atoi(portText) > 65535
       THEN [err |-> Ptr("invalid port"), cfg |-> Nil]
       ELSE IF sslmode \notin SSLModes
       THEN [err |-> Ptr("sslmode is invalid"), cfg |-> Nil]
       ELSE [err |-> Nil,
             cfg |-> Ptr([Host |-> SubSeq(u.Host, 1, k - 1),
                          Port |-> Atoi(portText),
                          Database |-> u.Path,
                          User |-> u.User[1],
                          Password |-> u.User[2],
                          SSLMode |-> sslmode,
                          Tracer |-> Nil,
                          MaxConns |-> Nil,
                          MinConns |-> Nil,
                          MaxConnLifetime |-> Nil,
                          MaxConnIdleTime |-> Nil,
                          HealthCheckPeriod |-> Nil,
                          MaxConnLifetimeJitter |-> Nil,
                          AfterConnect |-> Nil])]

\* Lines 107-124: the overlay of the pool settings.
Overlay(cfg, options) ==
    [cfg EXCEPT
       !.MaxConns = IF options.maxconns # Nil /\ ~IsZero(Deref(options.maxconns))
                    THEN Ptr(Int32(Deref(options.maxconns))) ELSE @,
       !.MinConns = IF options.minconns # Nil /\ ~IsZero(Deref(options.minconns))
                    THEN Ptr(Int32(Deref(options.minconns))) ELSE @,
       !.MaxConnLifetime =
           IF options.maxconnlifetime # Nil /\ Deref(options.maxconnlifetime) # 0
           THEN options.maxconnlifetime ELSE @,
       !.MaxConnIdleTime =
           IF options.maxconnidletime # Nil THEN options.maxconnidletime ELSE @,
       !.HealthCheckPeriod =
           IF options.healthcheckperiod # Nil THEN options.healthcheckperiod
           ELSE @,
       !.MaxConnLifetimeJitter =
           IF options.maxconnlifetimejitter # Nil
           THEN options.maxconnlifetimejitter ELSE @]

\* A hook that swallows the ping error.
MutAfterConnect(pingErr) == Nil

\* Lines 125-130: the hook New installs; pingErr is the result of conn.Ping.
AfterConnect(pingErr) ==
    IF pingErr # Nil THEN Ptr("ping after connect: " \o Deref(pingErr))
    ELSE Nil

\* Lines 103-130 after a successful parse: the configuration handed to the
\* pool constructor.  No statement of New assigns the tracer.
Configure(cfg, options) ==
    [Overlay(cfg, options) EXCEPT !.AfterConnect = Ptr("AfterConnect")]

\* A return that hands out the pool also when the constructor failed.
MutReturnPool(pool, e) == [handle |-> Ptr(pool), err |-> e]

\* Lines 132-135: what New returns after pgxpool.NewWithConfig.
ReturnPool(pool, e) ==
    IF e # Nil THEN [handle |-> Nil, err |-> e]
    ELSE [handle |-> Ptr(pool), err |-> Nil]

\* pgxpool.NewWithConfig(ctx, conCfg), line 131: the library decides; it may
\* succeed or fail, and it is the only callee that is given ctx.
CtorErrors(done) ==
    {Nil, Ptr("construction error")}
        \cup (IF done THEN {Ptr("context canceled")} ELSE {})

-----------------------------------------------------------------------------
\* The inputs: option values a caller can pass.

Hosts == {<<>>,
          <<"1", "0", ".", "0", ".", "0", ".", "7">>,
          <<"n", "o", "t", "-", "a", "n", "-", "i", "p">>}

\* Go ints <<hi, lo>>: -1, 0, 4 and 2^32 + 4.
WideInts == {<<-1, -1>>, <<0, 0>>, <<0, 4>>, <<1, 4>>}

Durations == {-1, 0, 30}

Loggers == {Nil, Ptr("log")}

OptionValues ==
    ({"WithHost"} \X Hosts)
    \cup ({"WithPort"} \X {-1, 0, 5433})
    \cup ({"WithDatabase"} \X {"", "app"})
    \cup ({"WithUser"} \X {"", "bob"})
    \cup ({"WithPass"} \X {"", "pw"})
    \cup ({"WithSSLMode"} \X {"", "require", "bogus"})
    \cup ({"WithMaxConns"} \X WideInts)
    \cup ({"WithMinConns"} \X (WideInts \ {<<1, 4>>}))
    \cup ({"WithMaxConnLifeTime", "WithMaxConnIdleTime"} \X Durations)
    \cup ({"WithHealthCheckPeriod", "WithMaxConnLifeTimeJitter"}
            \X (Durations \ {-1}))
    \cup ({"WithZapLogger"} \X (Loggers \X {"warn", "loud"}))
    \cup ({"WithZeroLogger", "WithLogrusLogger"}
            \X {<<Ptr("log"), "warn">>, <<Ptr("log"), "loud">>})
    \cup ({"WithZapLoggerPlain"} \X Loggers)
    \cup ({"WithZeroLoggerPlain", "WithLogrusLoggerPlain"} \X {Ptr("log")})

OptionLists == UNION {[1..n -> OptionValues] : n \in 0..MaxOpts}

\* The option values used when the life of the returned pool is followed: an
\* option that fails, one that makes the descriptor parse fail, and valid ones.
PoolOptionValues ==
    {<<"WithPort", -1>>, <<"WithPort", 5433>>, <<"WithSSLMode", "bogus">>,
     <<"WithMaxConns", <<0, 4>>>>, <<"WithZapLogger", <<Ptr("log"), "warn">>>>}

PoolOptionLists == UNION {[1..n -> PoolOptionValues] : n \in 0..MaxOpts}

-----------------------------------------------------------------------------
\* State of one call New(ctx, opts...) and of the pool it returns.

VARIABLES
    opts,         \* the options passed to New
    ctxDone,      \* ctx is cancelled
    pc,           \* "options" (lines 50-55), "configure" (103-135), "done"
    i,            \* index of the next option of the loop
    opt,          \* the options record
    applied,      \* indices of the options called so far, in call order
    url,          \* descriptors handed to pgxpool.ParseConfig
    conCfg,       \* nil, or the structured configuration
    built,        \* configurations handed to pgxpool.NewWithConfig
    handle,       \* returned *Pool: nil or a pool
    err,          \* returned error
    conns,        \* physical connections the pool has established
    idle          \* indices into conns of the connections in the pool

vars == <<opts, ctxDone, pc, i, opt, applied, url, conCfg, built, handle,
          err, conns, idle>>

\* The state at the call of New with the options args.
Start(args) ==
    /\ opts = args
    /\ ctxDone = FALSE
    /\ pc = "options"
    /\ i = 1
    /\ opt = ZeroOptions
    /\ applied = <<>>
    /\ url = <<>>
    /\ conCfg = Nil
    /\ built = <<>>
    /\ handle = Nil
    /\ err = Nil
    /\ conns = <<>>
    /\ idle = {}

Init == \E args \in OptionLists : Start(args)

InitPool == \E args \in PoolOptionLists : Start(args)

\* The caller cancels ctx before New is entered or while it runs.
Cancel ==
    /\ pc # "done"
    /\ ~ctxDone
    /\ ctxDone' = TRUE
    /\ UNCHANGED <<opts, pc, i, opt, applied, url, conCfg, built, handle, err,
                   conns, idle>>

\* A loop that remembers the error of a failing option and goes on.
MutApplyOption ==
    /\ pc = "options"
    /\ i <= Len(opts)
    /\ LET r == Apply(opts[i], opt)
       IN /\ applied' = Append(applied, i)
          /\ opt' = r.options
          /\ i' = i + 1
          /\ err' = IF r.err # Nil THEN r.err ELSE err
          /\ UNCHANGED <<pc, handle>>
    /\ UNCHANGED <<opts, ctxDone, url, conCfg, built, conns, idle>>

\* Lines 51-55: one iteration of the loop over opts.
ApplyOption ==
    /\ pc = "options"
    /\ i <= Len(opts)
    /\ LET r == Apply(opts[i], opt)
       IN /\ applied' = Append(applied, i)
          /\ opt' = r.options
          /\ IF r.err # Nil
             THEN /\ pc' = "done"
                  /\ handle' = Nil
                  /\ err' = r.err
                  /\ i' = i
             ELSE /\ i' = i + 1
                  /\ UNCHANGED <<pc, handle, err>>
    /\ UNCHANGED <<opts, ctxDone, url, conCfg, built, conns, idle>>

\* Lines 57-106: defaults, descriptor, pgxpool.ParseConfig.
ParseDescriptor ==
    /\ pc = "options"
    /\ i > Len(opts)
    /\ LET o == ResolveHost(opt)
           u == BuildURL(o)
           r == ParseConfig(u)
       IN /\ opt' = o
          /\ url' = Append(url, u)
          /\ IF r.err # Nil
             THEN /\ pc' = "done"
                  /\ handle' = Nil
                  /\ err' = r.err
                  /\ UNCHANGED conCfg
             ELSE /\ pc' = "configure"
                  /\ conCfg' = r.cfg
                  /\ UNCHANGED <<handle, err>>
    /\ UNCHANGED <<opts, ctxDone, i, applied, built, conns, idle>>

\* Lines 107-135: overlay, hook, pgxpool.NewWithConfig, return.
NewWithConfig ==
    /\ pc = "configure"
    /\ LET cfg == Configure(Deref(conCfg), opt)
       IN /\ conCfg' = Ptr(cfg)
          /\ built' = Append(built, cfg)
          /\ \E e \in CtorErrors(ctxDone) :
                LET r == ReturnPool(cfg, e)
                IN /\ handle' = r.handle
                   /\ err' = r.err
    /\ pc' = "done"
    /\ UNCHANGED <<opts, ctxDone, i, opt, applied, url, conns, idle>>

\* The pool of a returned handle establishes one more physical connection,
\* calls the AfterConnect hook of its configuration on it, and keeps the
\* connection only if the hook returns nil.
Connect ==
    /\ pc = "done"
    /\ handle # Nil
    /\ Len(conns) < MaxConnAttempts
    /\ \E pingErr \in {Nil, Ptr("conn closed")} :
          LET hookErr == IF Deref(handle).AfterConnect # Nil
                         THEN AfterConnect(pingErr) ELSE Nil
          IN /\ conns' = Append(conns, [pingErr |-> pingErr,
                                        hookErr |-> hookErr])
             /\ idle' = IF hookErr = Nil THEN idle \cup {Len(conns) + 1}
                        ELSE idle
    /\ UNCHANGED <<opts, ctxDone, pc, i, opt, applied, url, conCfg, built,
                   handle, err>>

\* The steps of one call of New.
New == Cancel \/ ApplyOption \/ ParseDescriptor \/ NewWithConfig

\* New is called with any list of options.
SpecNew == Init /\ [][New]_vars

Next == Cancel \/ ApplyOption \/ ParseDescriptor \/ NewWithConfig \/ Connect

\* New is called and the pool it returns establishes connections.
Spec == InitPool /\ [][Next]_vars

TypeOK ==
    /\ pc \in {"options", "configure", "done"}
    /\ i \in 1..(Len(opts) + 1)
    /\ Len(url) <= 1 /\ Len(built) <= 1

-----------------------------------------------------------------------------
\* Vocabulary of the properties.

\* The options applied one after the other, from left to right.
RECURSIVE ApplyAll(_, _)
ApplyAll(seq, options) ==
    IF seq = <<>> THEN options
    ELSE ApplyAll(Tail(seq), Apply(Head(seq), options).options)

\* An option fails validation (no option looks at the record to decide).
Fails(o) == Apply(o, ZeroOptions).err # Nil

FailingIdx == {j \in 1..Len(opts) : Fails(opts[j])}

FirstFailing == CHOOSE k \in FailingIdx : \A j \in FailingIdx : k <= j

InOrder(n) == [j \in 1..n |-> j]

LevelLoggerKinds == {"WithZapLogger", "WithZeroLogger", "WithLogrusLogger"}

PlainLoggerKinds == {"WithZapLoggerPlain", "WithZeroLoggerPlain",
                     "WithLogrusLoggerPlain"}

RecognisedLevels == {"trace", "debug", "info", "warn", "error", "none"}

\* The field of the options record an option is for.
Target(o) ==
    CASE Kind(o) = "WithHost" -> "host"
      [] Kind(o) = "WithPort" -> "port"
      [] Kind(o) = "WithDatabase" -> "database"
      [] Kind(o) = "WithUser" -> "user"
      [] Kind(o) = "WithPass" -> "pass"
      [] Kind(o) = "WithSSLMode" -> "sslmode"
      [] Kind(o) = "WithMaxConns" -> "maxconns"
      [] Kind(o) = "WithMinConns" -> "minconns"
      [] Kind(o) = "WithMaxConnLifeTime" -> "maxconnlifetime"
      [] Kind(o) = "WithMaxConnIdleTime" -> "maxconnidletime"
      [] Kind(o) = "WithHealthCheckPeriod" -> "healthcheckperiod"
      [] Kind(o) = "WithMaxConnLifeTimeJitter" -> "maxconnlifetimejitter"
      [] Kind(o) \in LevelLoggerKinds -> "tracelogger"
      [] Kind(o) \in PlainLoggerKinds -> "logger"

\* A logger option given a nil logger writes nothing.
Writes(o) ==
    CASE Kind(o) \in LevelLoggerKinds -> Arg(o)[1] # Nil
      [] Kind(o) \in PlainLoggerKinds -> Arg(o) # Nil
      [] OTHER -> TRUE

AdapterOf(o) ==
    CASE Kind(o) \in {"WithZapLogger", "WithZapLoggerPlain"} -> "zap_adapter"
      [] Kind(o) \in {"WithZeroLogger", "WithZeroLoggerPlain"} -> "zero_adapter"
      [] OTHER -> "logrus_adapter"

\* The value a valid, writing option is documented to store: the argument,
\* or the named default in place of an empty host, port, database, user or
\* SSL mode.
Written(o) ==
    CASE Kind(o) = "WithHost" ->
             IF Arg(o) = <<>> THEN <<127, 0, 0, 1>> ELSE Deref(ParseIP(Arg(o)))
      [] Kind(o) = "WithPort" -> IF Arg(o) = 0 THEN 5432 ELSE Arg(o)
      [] Kind(o) \in {"WithDatabase", "WithUser"} ->
             IF Arg(o) = "" THEN "postgres" ELSE Arg(o)
      [] Kind(o) = "WithSSLMode" -> IF Arg(o) = "" THEN "disable" ELSE Arg(o)
      [] Kind(o) \in LevelLoggerKinds ->
             [Logger |-> <<AdapterOf(o), Deref(Arg(o)[1])>>,
              LogLevel |-> LogLevelFromString(Arg(o)[2]).lvl]
      [] Kind(o) \in PlainLoggerKinds -> <<AdapterOf(o), Deref(Arg(o))>>
      [] OTHER -> Arg(o)

WritersOf(f) == {j \in 1..Len(opts) : Target(opts[j]) = f /\ Writes(opts[j])}

LastWriter(f) == CHOOSE k \in WritersOf(f) : \A j \in WritersOf(f) : j <= k

\* The loop over the options has ended without an error.
LoopPassed == pc = "options" /\ i > Len(opts)

-----------------------------------------------------------------------------
\* C1: the options are applied in call order, and New stops at the first
\* option that fails validation: it returns a nil handle and that option's
\* error, applies no later option, and calls neither pgxpool.ParseConfig nor
\* pgxpool.NewWithConfig.
C1_StopsAtFirstFailure ==
    /\ applied = InOrder(Len(applied))
    /\ pc = "options" => opt = ApplyAll(SubSeq(opts, 1, i - 1), ZeroOptions)
    /\ (pc = "done" /\ FailingIdx # {}) =>
          /\ handle = Nil
          /\ err = Apply(opts[FirstFailing], ZeroOptions).err
          /\ applied = InOrder(FirstFailing)
          /\ url = <<>>
          /\ built = <<>>

\* New has returned the error of the first of two options; the second was
\* never called.
C1_Witness ==
    /\ pc = "done"
    /\ Len(opts) = 2
    /\ Fails(opts[1])
    /\ applied = <<1>>
    /\ err # Nil

\* C2: New returns either a pool and a nil error, or nil and an error; a
\* failure of an option, of the descriptor parse or of the pool constructor
\* each gives nil and the error.
C2_AllOrNothing ==
    /\ pc # "done" => handle = Nil /\ err = Nil
    /\ pc = "done" =>
          \/ handle # Nil /\ err = Nil
          \/ handle = Nil /\ err # Nil
    /\ (pc = "done" /\ FailingIdx # {}) => handle = Nil
    /\ (pc = "done" /\ url # <<>> /\ ParseConfig(url[1]).err # Nil) =>
          handle = Nil /\ err = ParseConfig(url[1]).err
    /\ (pc = "done" /\ handle # Nil) => built # <<>>

\* The pool constructor was called and failed.
C2_Witness ==
    /\ pc = "done"
    /\ built # <<>>
    /\ handle = Nil
    /\ err # Nil

\* C3: last write wins.  When every option has passed validation, each field
\* of the options record holds the value written by the last option for that
\* field, and is nil when no option wrote it.
C3_LastWriteWins ==
    LoopPassed =>
        \A f \in OptionFields :
            IF WritersOf(f) = {} THEN opt[f] = Nil
            ELSE opt[f] = Ptr(Written(opts[LastWriter(f)]))

\* Two valid options wrote different values to the same field.
C3_Witness ==
    /\ LoopPassed
    /\ Len(opts) = 2
    /\ Target(opts[1]) = Target(opts[2])
    /\ Writes(opts[1]) /\ Writes(opts[2])
    /\ Written(opts[1]) # Written(opts[2])

\* C4: New without options hands pgxpool.ParseConfig a descriptor with host
\* 127.0.0.1, port 5432, database postgres, user postgres, an empty password
\* and sslmode disable.
C4_DefaultDescriptor ==
    (opts = <<>> /\ pc # "options") =>
        /\ Len(url) = 1
        /\ url[1].Host = default_host \o <<":", "5", "4", "3", "2">>
        /\ url[1].Path = "postgres"
        /\ url[1].User = <<"postgres", "">>
        /\ url[1].RawQuery = << <<"sslmode", "disable">> >>
        /\ ParseConfig(url[1]).err = Nil

\* C5: in the configuration handed to the pool constructor, max pool size,
\* min pool size and max connection lifetime are left at the library default
\* when unset or zero, and hold the set value otherwise; idle time, health
\* check period and lifetime jitter hold the set value, zero included.
C5_ZeroHandling ==
    built # <<>> =>
        LET c == built[1]
        IN /\ IF opt.maxconns = Nil \/ IsZero(Deref(opt.maxconns))
              THEN c.MaxConns = Nil
              ELSE /\ c.MaxConns # Nil
                   /\ Int64Of(Deref(c.MaxConns)) = Deref(opt.maxconns)
           /\ IF opt.minconns = Nil \/ IsZero(Deref(opt.minconns))
              THEN c.MinConns = Nil
              ELSE /\ c.MinConns # Nil
                   /\ Int64Of(Deref(c.MinConns)) = Deref(opt.minconns)
           /\ IF opt.maxconnlifetime = Nil \/ opt.maxconnlifetime = Ptr(0)
              THEN c.MaxConnLifetime = Nil
              ELSE c.MaxConnLifetime = opt.maxconnlifetime
           /\ c.MaxConnIdleTime = opt.maxconnidletime
           /\ c.HealthCheckPeriod = opt.healthcheckperiod
           /\ c.MaxConnLifetimeJitter = opt.maxconnlifetimejitter

\* C6: the configuration handed to the pool constructor has the logger
\* binding of the options record attached, with its level, and none when no
\* binding was configured.
C6_LoggerAttached ==
    built # <<>> => built[1].Tracer = opt.tracelogger

\* C7, as claimed: a logger option applied with an unrecognised level name
\* fails with the level-parse error, and New returns nil and that error.
C7_BadLevelFails ==
    \A j \in 1..Len(applied) :
        (Kind(opts[j]) \in LevelLoggerKinds
            /\ Arg(opts[j])[2] \notin RecognisedLevels) =>
            /\ j = Len(applied)
            /\ pc = "done"
            /\ handle = Nil
            /\ err = Ptr("invalid log level")

\* C7, amended: a logger option applied with a non-nil logger and an
\* unrecognised level name fails with the level-parse error, and New returns
\* nil and that error.
C7_BadLevelWithLoggerFails ==
    \A j \in 1..Len(applied) :
        (Kind(opts[j]) \in LevelLoggerKinds
            /\ Arg(opts[j])[1] # Nil
            /\ Arg(opts[j])[2] \notin RecognisedLevels) =>
            /\ j = Len(applied)
            /\ pc = "done"
            /\ handle = Nil
            /\ err = Ptr("invalid log level")

\* A logger option with a logger and a bad level was applied after another
\* option.
C7_Witness ==
    /\ Len(applied) = 2
    /\ Kind(opts[2]) \in LevelLoggerKinds
    /\ Arg(opts[2])[1] # Nil
    /\ Arg(opts[2])[2] \notin RecognisedLevels

\* C8: when ctx was cancelled before New returned, New returns nil and a
\* cancellation error.
C8_CancelFails ==
    (pc = "done" /\ ctxDone) =>
        /\ handle = Nil
        /\ err = Ptr("context canceled")

\* C9: an option application never takes a present field of the options
\* record back to nil.
C9_NeverUnset ==
    [][\A f \in OptionFields : opt[f] # Nil => opt'[f] # Nil]_vars

\* A field set by the first option is still present after the second option
\* wrote the same field again, or failed.
C9_Witness ==
    /\ Len(applied) = 2
    /\ Writes(opts[1])
    /\ opt[Target(opts[1])] # Nil
    /\ \/ Fails(opts[2])
       \/ Target(opts[2]) = Target(opts[1]) /\ Writes(opts[2])

\* C10: the hook runs on every new connection; it returns an error exactly
\* when the ping failed, a connection whose hook failed is not in the pool,
\* so every connection in the pool has passed its ping, and the result of
\* New stands.
C10_PingBeforePool ==
    /\ \A c \in 1..Len(conns) :
          /\ conns[c].pingErr = Nil <=> conns[c].hookErr = Nil
          /\ conns[c].hookErr # Nil => c \notin idle
    /\ \A c \in idle : c \in 1..Len(conns) /\ conns[c].pingErr = Nil
    /\ conns # <<>> => pc = "done" /\ handle # Nil /\ err = Nil

\* One connection failed its ping and was kept out, another one is pooled.
C10_Witness ==
    /\ \E c \in 1..Len(conns) : conns[c].pingErr # Nil /\ c \notin idle
    /\ idle # {}

====
